---- MODULE Spec2Model ----
(***************************************************************************)
(* scripts/release.py of Aurelis: the release workflow as a state machine. *)
(*                                                                         *)
(* Text (file contents, command output, typed answers) is a sequence of    *)
(* tokens.  A token is a line feed, a carriage return, a space, or a       *)
(* fragment of text that holds no line terminator; the literal             *)
(* "# Changelog" the script searches for is a fragment of its own.         *)
(* A version string "a.b.c" is the triple <<a, b, c>>.                     *)
(***************************************************************************)
EXTENDS Integers, Sequences, FiniteSets, TLC

VARIABLES
    pc,                 \* position of the interpreter in the script
    has_aurelis,        \* os.path.exists("aurelis")
    has_pyproject,      \* os.path.exists("pyproject.toml")
    level,              \* positional argument of the command line
    skip_checks,        \* --skip-checks was passed
    porcelain,          \* what "git status --porcelain" prints in this tree
    pyproject_version,  \* the version poetry keeps in pyproject.toml
    current_version,    \* bump_version: local current_version
    new_version,        \* bump_version's result, main's new_version
    changelog,          \* CHANGELOG.md: [exists, bytes]
    linesep,            \* os.linesep of the platform
    clock,              \* the current day
    log,                \* every subprocess run, file write and prompt, in order
    updates,            \* history of update_changelog calls
    push_confirm,       \* push_to_github: local confirm
    release_confirm     \* create_github_release: local confirm

vars == <<pc, has_aurelis, has_pyproject, level, skip_checks, porcelain,
          pyproject_version, current_version, new_version, changelog,
          linesep, clock, log, updates, push_confirm, release_confirm>>

(***************************************************************************)
(* Bounds of the model.                                                    *)
(***************************************************************************)
MaxLen == 3         \* longest CHANGELOG.md, in tokens, the changelog runs start from
MaxReleases == 2    \* update_changelog calls in one changelog run
MaxVersion == 1     \* largest version component before a run's bump
MaxDay == 1         \* days the clock can reach

(***************************************************************************)
(* Tokens.                                                                 *)
(***************************************************************************)
LF == [t |-> "LF"]
CR == [t |-> "CR"]
SP == [t |-> "SP"]
Txt(s) == [t |-> "text", s |-> s]
HDR == Txt("# Changelog")
Ver(v) == [t |-> "version", v |-> v]
Heading(version, today) == [t |-> "heading", version |-> version, date |-> today]

Min(S) == CHOOSE x \in S : \A y \in S : x <= y

SeqsUpTo(A, n) == UNION {[1..k -> A] : k \in 0..n}

(***************************************************************************)
(* Text-mode file I/O.  open(path, "r") reads with universal newlines:     *)
(* "\r\n" and a lone "\r" both arrive as "\n".  open(path, "w") writes     *)
(* every "\n" as os.linesep.                                               *)
(***************************************************************************)
RECURSIVE read_text(_)
read_text(bytes) ==
    IF bytes = <<>> THEN <<>>
    ELSE IF Head(bytes) = CR
         THEN IF Len(bytes) >= 2 /\ bytes[2] = LF
              THEN <<LF>> \o read_text(SubSeq(bytes, 3, Len(bytes)))
              ELSE <<LF>> \o read_text(Tail(bytes))
         ELSE <<Head(bytes)>> \o read_text(Tail(bytes))

RECURSIVE write_text(_, _)
write_text(text, sep) ==
    IF text = <<>> THEN <<>>
    ELSE (IF Head(text) = LF THEN sep ELSE <<Head(text)>>)
         \o write_text(Tail(text), sep)

(***************************************************************************)
(* update_changelog.                                                       *)
(***************************************************************************)
InitialHeader ==
    <<HDR, LF, LF,
      Txt("All notable changes to this project will be documented in this file."),
      LF, LF>>

\* Mutant: the date is the day the script started, not the day of the call.
new_section_start_day(version, today) ==
    <<Heading(version, 0), LF, LF,
      Txt("### Added"), LF, Txt("- "), LF, LF,
      Txt("### Changed"), LF, Txt("- "), LF, LF,
      Txt("### Fixed"), LF, Txt("- "), LF, LF>>

new_section(version, today) ==
    <<Heading(version, today), LF, LF,
      Txt("### Added"), LF, Txt("- "), LF, LF,
      Txt("### Changed"), LF, Txt("- "), LF, LF,
      Txt("### Fixed"), LF, Txt("- "), LF, LF>>

\* Where the lazy ".*?\n\n" stops for a match that starts at i: just after
\* the first two consecutive line feeds behind the literal (0: no match at i).
MatchEndFrom(content, i) ==
    LET ends == {j \in (i + 1)..(Len(content) - 1) :
                    content[j] = LF /\ content[j + 1] = LF}
    IN  IF content[i] = HDR /\ ends # {} THEN Min(ends) + 1 ELSE 0

\* Mutant: the pattern r"# Changelog.*?\n", one line feed short.
header_match_end_one_newline(content) ==
    LET ends == {j \in 2..Len(content) :
                    content[j] = LF /\ \E i \in 1..(j - 1) : content[i] = HDR}
    IN  IF ends = {} THEN 0 ELSE Min(ends)

\* re.search(r"# Changelog.*?\n\n", content, re.DOTALL): the leftmost start
\* that matches; the result is header_match.end(), 0 standing for None.
header_match_end(content) ==
    LET starts == {i \in 1..Len(content) : MatchEndFrom(content, i) # 0}
    IN  IF starts = {} THEN 0 ELSE MatchEndFrom(content, Min(starts))

update_changelog(file, version, today, sep) ==
    LET created == IF file.exists THEN file
                   ELSE [exists |-> TRUE, bytes |-> write_text(InitialHeader, sep)]
        content == read_text(created.bytes)
        insert_position == header_match_end(content)
        new_content == SubSeq(content, 1, insert_position)
                       \o new_section(version, today)
                       \o SubSeq(content, insert_position + 1, Len(content))
    IN  IF insert_position # 0
        THEN [file |-> [exists |-> TRUE, bytes |-> write_text(new_content, sep)],
              ret |-> TRUE,
              writes |-> (IF file.exists THEN 0 ELSE 1) + 1]
        ELSE [file |-> created,
              ret |-> FALSE,
              writes |-> IF file.exists THEN 0 ELSE 1]

(***************************************************************************)
(* Values the environment supplies.                                        *)
(***************************************************************************)
ArgLevels == {"patch", "minor", "major", "bogus"}
\* Versions in pyproject.toml at the start: each component 0 or MaxVersion.
Versions == {<<a, b, c>> : a \in {0, MaxVersion}, b \in {0, MaxVersion}, c \in {0, MaxVersion}}
ReturnCodes == {0, 1}
Platforms == {<<LF>>, <<CR, LF>>}
StatusOutputs ==
    {<<>>,
     <<SP, Txt("M pyproject.toml"), LF>>,
     <<Txt("?? notes.txt"), LF, Txt("?? draft.md"), LF>>}
\* What the operator may type at a (y/n) prompt, character by character.
Answers == {<<"y">>, <<"Y">>, <<"n">>, <<>>, <<"y", "e", "s">>}
NoFile == [exists |-> FALSE, bytes |-> <<>>]
File(bytes) == [exists |-> TRUE, bytes |-> bytes]
\* Changelogs a workflow run starts from: none, the header alone, one
\* release already recorded, a file without the header, CRLF line ends.
SampleChangelogs ==
    {NoFile,
     File(<<HDR, LF, LF>>),
     File(<<HDR, LF, LF>> \o new_section(<<Ver(<<0, 0, 0>>)>>, 0)),
     File(<<Txt("Release notes"), LF, Txt("none yet"), LF>>),
     File(<<HDR, CR, LF, CR, LF, Txt("Unreleased"), CR, LF>>)}
\* Every changelog of at most MaxLen tokens.
ChangelogAlphabet == {HDR, LF, CR, Txt("x")}
SmallChangelogs ==
    {NoFile} \cup {File(b) : b \in SeqsUpTo(ChangelogAlphabet, MaxLen)}

(***************************************************************************)
(* str.strip() and str.lower().                                            *)
(***************************************************************************)
IsSpace(tok) == tok \in {SP, LF, CR}

RECURSIVE lstrip(_)
lstrip(s) == IF s # <<>> /\ IsSpace(Head(s)) THEN lstrip(Tail(s)) ELSE s

RECURSIVE rstrip(_)
rstrip(s) ==
    IF s # <<>> /\ IsSpace(s[Len(s)]) THEN rstrip(SubSeq(s, 1, Len(s) - 1)) ELSE s

strip(s) == rstrip(lstrip(s))

lower_char(c) == CASE c = "Y" -> "y" [] c = "N" -> "n" [] OTHER -> c
lower(s) == [i \in 1..Len(s) |-> lower_char(s[i])]

(***************************************************************************)
(* run_command and the external tools.                                     *)
(***************************************************************************)
Run(cmd, arg, rc) == [cmd |-> cmd, arg |-> arg, rc |-> rc]

\* Mutant: the exit status is never checked.
raises_never(check, rc) == FALSE

\* subprocess.run(..., check=check) raises CalledProcessError.
raises(check, rc) == check /\ rc # 0

\* stdout of "poetry version --short".
poetry_short(v) == <<Ver(v), LF>>

\* "poetry version <level>" on a major.minor.patch version.
poetry_bump(v, lvl) ==
    CASE lvl = "patch" -> <<v[1], v[2], v[3] + 1>>
      [] lvl = "minor" -> <<v[1], v[2] + 1, 0>>
      [] lvl = "major" -> <<v[1] + 1, 0, 0>>
      [] OTHER -> v

poetry_cmd(lvl) ==
    CASE lvl = "patch" -> "poetry version patch"
      [] lvl = "minor" -> "poetry version minor"
      [] lvl = "major" -> "poetry version major"
      [] OTHER -> "poetry version <level>"

(***************************************************************************)
(* The conditions the script tests.                                        *)
(***************************************************************************)
\* Mutant: "and" for "or".
wrong_directory_both(aurelis, pyproject) == ~aurelis /\ ~pyproject

\* line 28: the script exits unless it runs in the project root
wrong_directory(aurelis, pyproject) == ~aurelis \/ ~pyproject

\* Mutant: the positional argument takes any word.
choices_any == ArgLevels

\* line 127: choices of the positional argument
choices == {"patch", "minor", "major"}

\* line 50: the levels bump_version accepts
bump_levels == {"patch", "minor", "major"}

\* Mutant: the test inverted.
not_clean_inverted(stdout) == strip(stdout) = <<>>

\* line 38: git status printed something
not_clean(stdout) == strip(stdout) # <<>>

\* Mutant: everything but "n" confirms.
push_confirmed_unless_n(confirm) == lower(confirm) # <<"n">>

\* line 97: the push is confirmed
push_confirmed(confirm) == lower(confirm) = <<"y">>

\* line 115: the release is confirmed
release_confirmed(confirm) == lower(confirm) = <<"y">>

\* Mutant: the version read before the bump is returned.
bump_version_result_stale(current, new) == current

\* line 58: what bump_version returns
bump_version_result(current, new) == new

\* Mutant: main pushes before it commits and tags.
main_after_push_first(step, skip) ==
    CASE step = "parse_args" -> IF skip THEN "bump_version" ELSE "check_git_clean"
      [] step = "check_git_clean" -> "bump_version"
      [] step = "bump_version" -> "update_changelog"
      [] step = "update_changelog" -> "pause"
      [] step = "pause" -> "push_to_github"
      [] step = "push_to_github" -> "create_git_tag"
      [] step = "create_git_tag" -> "create_github_release"
      [] step = "create_github_release" -> "completed"

\* main, lines 136-157: the step that follows each step
main_after(step, skip) ==
    CASE step = "parse_args" -> IF skip THEN "bump_version" ELSE "check_git_clean"
      [] step = "check_git_clean" -> "bump_version"
      [] step = "bump_version" -> "update_changelog"
      [] step = "update_changelog" -> "pause"
      [] step = "pause" -> "create_git_tag"
      [] step = "create_git_tag" -> "push_to_github"
      [] step = "push_to_github" -> "create_github_release"
      [] step = "create_github_release" -> "completed"

(***************************************************************************)
(* The run of the script.                                                  *)
(***************************************************************************)
environment == <<has_aurelis, has_pyproject, level, skip_checks, porcelain, linesep>>
locals == <<current_version, new_version, push_confirm, release_confirm>>
files == <<pyproject_version, changelog, updates>>

Halted == pc \in {"exited", "aborted", "done"}

Init ==
    /\ pc = "module"
    /\ has_aurelis \in BOOLEAN
    /\ has_pyproject \in BOOLEAN
    /\ level \in ArgLevels
    /\ skip_checks \in BOOLEAN
    /\ porcelain \in StatusOutputs
    /\ pyproject_version \in Versions
    /\ current_version = <<>>
    /\ new_version = <<>>
    /\ changelog \in SampleChangelogs
    /\ linesep \in Platforms
    /\ clock = 0
    /\ log = <<>>
    /\ updates = <<>>
    /\ push_confirm = <<>>
    /\ release_confirm = <<>>

\* A subprocess step that only runs a command: run_command(cmd, check).
Exec(at, cmd, arg, check, next) ==
    /\ pc = at
    /\ \E rc \in ReturnCodes :
          /\ log' = Append(log, Run(cmd, arg, rc))
          /\ pc' = IF raises(check, rc) THEN "aborted" ELSE next
    /\ UNCHANGED <<environment, locals, files, clock>>

\* lines 27-29
ModuleDirCheck ==
    /\ pc = "module"
    /\ pc' = IF wrong_directory(has_aurelis, has_pyproject) THEN "exited" ELSE "parse_args"
    /\ UNCHANGED <<environment, locals, files, clock, log>>

\* lines 126-134: argparse exits on a level outside choices
ParseArgs ==
    /\ pc = "parse_args"
    /\ pc' = IF level \in choices THEN main_after("parse_args", skip_checks) ELSE "exited"
    /\ UNCHANGED <<environment, locals, files, clock, log>>

\* lines 35-41
CheckGitClean ==
    /\ pc = "check_git_clean"
    /\ \E rc \in ReturnCodes :
          /\ log' = Append(log, Run("git status --porcelain", <<>>, rc))
          /\ pc' = IF raises(TRUE, rc) THEN "aborted"
                   ELSE IF not_clean(porcelain) THEN "exited"
                   ELSE main_after("check_git_clean", skip_checks)
    /\ UNCHANGED <<environment, locals, files, clock>>

\* lines 50-51
BumpCheckLevel ==
    /\ pc = "bump_version"
    /\ pc' = IF level \notin bump_levels THEN "exited" ELSE "bump_version.current"
    /\ UNCHANGED <<environment, locals, files, clock, log>>

\* line 53, get_current_version
BumpReadCurrent ==
    /\ pc = "bump_version.current"
    /\ \E rc \in ReturnCodes :
          /\ log' = Append(log, Run("poetry version --short", <<>>, rc))
          /\ IF raises(TRUE, rc)
             THEN pc' = "aborted" /\ UNCHANGED current_version
             ELSE /\ pc' = "bump_version.poetry"
                  /\ current_version' = strip(poetry_short(pyproject_version))
    /\ UNCHANGED <<environment, new_version, push_confirm, release_confirm, files, clock>>

\* line 54
BumpPoetryVersion ==
    /\ pc = "bump_version.poetry"
    /\ \E rc \in ReturnCodes :
          /\ log' = Append(log, Run(poetry_cmd(level), <<>>, rc))
          /\ IF raises(TRUE, rc)
             THEN pc' = "aborted" /\ UNCHANGED pyproject_version
             ELSE /\ pc' = "bump_version.new"
                  /\ pyproject_version' = poetry_bump(pyproject_version, level)
    /\ UNCHANGED <<environment, locals, changelog, updates, clock>>

\* lines 55-58
BumpReadNew ==
    /\ pc = "bump_version.new"
    /\ \E rc \in ReturnCodes :
          /\ log' = Append(log, Run("poetry version --short", <<>>, rc))
          /\ IF raises(TRUE, rc)
             THEN pc' = "aborted" /\ UNCHANGED new_version
             ELSE /\ pc' = main_after("bump_version", skip_checks)
                  /\ new_version' = bump_version_result(current_version,
                                        strip(poetry_short(pyproject_version)))
    /\ UNCHANGED <<environment, current_version, push_confirm, release_confirm, files, clock>>

\* lines 60-85, called at line 143
UpdateChangelog ==
    /\ pc = "update_changelog"
    /\ LET r == update_changelog(changelog, new_version, clock, linesep)
       IN  /\ changelog' = r.file
           /\ log' = log \o [i \in 1..r.writes |-> Run("write CHANGELOG.md", <<>>, 0)]
           /\ updates' = Append(updates, [before |-> changelog, after |-> r.file,
                                          version |-> new_version, today |-> clock,
                                          sep |-> linesep, ret |-> r.ret])
    /\ pc' = main_after("update_changelog", skip_checks)
    /\ UNCHANGED <<environment, locals, pyproject_version, clock>>

\* line 146: input() returns, or raises EOFError
Pause ==
    /\ pc = "pause"
    /\ \E eof \in BOOLEAN :
          /\ log' = Append(log, Run("input pause", <<>>, IF eof THEN 1 ELSE 0))
          /\ pc' = IF eof THEN "aborted" ELSE main_after("pause", skip_checks)
    /\ UNCHANGED <<environment, locals, files, clock>>

\* line 89
GitAdd == Exec("create_git_tag", "git add", <<>>, TRUE, "create_git_tag.commit")

\* line 90
GitCommit == Exec("create_git_tag.commit", "git commit", new_version, TRUE, "create_git_tag.tag")

\* lines 91-92
GitTag ==
    Exec("create_git_tag.tag", "git tag", new_version, TRUE,
         main_after("create_git_tag", skip_checks))

\* lines 96-99
PushPrompt ==
    /\ pc = "push_to_github"
    /\ \/ /\ log' = Append(log, Run("input push", <<>>, 1))
          /\ pc' = "aborted"
          /\ UNCHANGED push_confirm
       \/ \E answer \in Answers :
             /\ log' = Append(log, Run("input push", <<>>, 0))
             /\ push_confirm' = answer
             /\ pc' = IF push_confirmed(answer) THEN "push_to_github.push"
                      ELSE main_after("push_to_github", skip_checks)
    /\ UNCHANGED <<environment, current_version, new_version, release_confirm, files, clock>>

\* line 101
GitPush == Exec("push_to_github.push", "git push", <<>>, TRUE, "push_to_github.tags")

\* lines 102-103
GitPushTags ==
    Exec("push_to_github.tags", "git push --tags", <<>>, TRUE,
         main_after("push_to_github", skip_checks))

\* lines 107-112: "which gh" runs with check=False
WhichGh ==
    /\ pc = "create_github_release"
    /\ \E rc \in ReturnCodes :
          /\ log' = Append(log, Run("which gh", <<>>, rc))
          /\ pc' = IF raises(FALSE, rc) THEN "aborted"
                   ELSE IF rc # 0 THEN main_after("create_github_release", skip_checks)
                   ELSE "create_github_release.prompt"
    /\ UNCHANGED <<environment, locals, files, clock>>

\* lines 114-119
ReleasePrompt ==
    /\ pc = "create_github_release.prompt"
    /\ \/ /\ log' = Append(log, Run("input release", <<>>, 1))
          /\ pc' = "aborted"
          /\ UNCHANGED release_confirm
       \/ \E answer \in Answers :
             /\ log' = Append(log, Run("input release", <<>>, 0))
             /\ release_confirm' = answer
             /\ pc' = IF release_confirmed(answer) THEN "create_github_release.create"
                      ELSE main_after("create_github_release", skip_checks)
    /\ UNCHANGED <<environment, current_version, new_version, push_confirm, files, clock>>

\* lines 121-123
GhReleaseCreate ==
    Exec("create_github_release.create", "gh release create", new_version, TRUE,
         main_after("create_github_release", skip_checks))

\* lines 157-159
Completed ==
    /\ pc = "completed"
    /\ pc' = "done"
    /\ UNCHANGED <<environment, locals, files, clock, log>>

\* Midnight passes while the script runs.
Tick ==
    /\ ~Halted
    /\ clock < MaxDay
    /\ clock' = clock + 1
    /\ UNCHANGED <<pc, environment, locals, files, log>>

Next ==
    \/ ModuleDirCheck
    \/ ParseArgs
    \/ CheckGitClean
    \/ BumpCheckLevel
    \/ BumpReadCurrent
    \/ BumpPoetryVersion
    \/ BumpReadNew
    \/ UpdateChangelog
    \/ Pause
    \/ GitAdd
    \/ GitCommit
    \/ GitTag
    \/ PushPrompt
    \/ GitPush
    \/ GitPushTags
    \/ WhichGh
    \/ ReleasePrompt
    \/ GhReleaseCreate
    \/ Completed
    \/ Tick

Spec == Init /\ [][Next]_vars

(***************************************************************************)
(* Releases one after the other over one CHANGELOG.md: each is a run of    *)
(* the script in which every command succeeds, reduced to what reaches     *)
(* the changelog (lines 140-143).  The file starts as any small file.      *)
(***************************************************************************)
InitChangelog ==
    /\ pc = "releases"
    /\ has_aurelis = TRUE
    /\ has_pyproject = TRUE
    /\ level = "patch"
    /\ skip_checks = TRUE
    /\ porcelain = <<>>
    /\ pyproject_version = <<0, 0, 0>>
    /\ current_version = <<>>
    /\ new_version = <<>>
    /\ changelog \in SmallChangelogs
    /\ linesep \in Platforms
    /\ clock = 0
    /\ log = <<>>
    /\ updates = <<>>
    /\ push_confirm = <<>>
    /\ release_confirm = <<>>

Release ==
    /\ pc = "releases"
    /\ Len(updates) < MaxReleases
    /\ \E lvl \in bump_levels :
          LET bumped == poetry_bump(pyproject_version, lvl)
              version == bump_version_result(strip(poetry_short(pyproject_version)),
                                             strip(poetry_short(bumped)))
              r == update_changelog(changelog, version, clock, linesep)
          IN  /\ pyproject_version' = bumped
              /\ current_version' = strip(poetry_short(pyproject_version))
              /\ new_version' = version
              /\ changelog' = r.file
              /\ updates' = Append(updates, [before |-> changelog, after |-> r.file,
                                             version |-> version, today |-> clock,
                                             sep |-> linesep, ret |-> r.ret])
    /\ UNCHANGED <<pc, environment, push_confirm, release_confirm, clock, log>>

NextChangelog ==
    \/ Release
    \/ Tick

SpecChangelog == InitChangelog /\ [][NextChangelog]_vars

(***************************************************************************)
(* Vocabulary of the properties.                                           *)
(***************************************************************************)
Idx(cmd) == {i \in 1..Len(log) : log[i].cmd = cmd}
Ran(cmd) == Idx(cmd) # {}
Succeeded(cmd) == \E i \in Idx(cmd) : log[i].rc = 0

BumpCmds == {"poetry version patch", "poetry version minor",
             "poetry version major", "poetry version <level>"}
RemoteCmds == {"git push", "git push --tags", "gh release create"}
\* What changes the project, the repository or the remote.
MutatingCmds ==
    BumpCmds \cup {"write CHANGELOG.md", "git add", "git commit", "git tag"}
             \cup RemoteCmds
Subprocesses ==
    BumpCmds \cup {"git status --porcelain", "poetry version --short", "git add",
                   "git commit", "git tag", "which gh"}
             \cup RemoteCmds
NoMutation ==
    /\ \A i \in 1..Len(log) : log[i].cmd \notin MutatingCmds
    /\ updates = <<>>

\* The text has the literal "# Changelog" and, somewhere behind it, a blank line.
HasRecognizedHeader(text) ==
    \E i \in 1..Len(text) : \E j \in 1..Len(text) :
        /\ i < j
        /\ j < Len(text)
        /\ text[i] = HDR
        /\ text[j] = LF
        /\ text[j + 1] = LF

IsHeading(tok) == tok.t = "heading"
HeadingsOf(file) == SelectSeq(read_text(file.bytes), IsHeading)

\* The version triple a version string stands for.
Triple(version) == version[1].v
Greater(v, w) ==
    \/ v[1] > w[1]
    \/ v[1] = w[1] /\ v[2] > w[2]
    \/ v[1] = w[1] /\ v[2] = w[2] /\ v[3] > w[3]

(***************************************************************************)
(* C1.  A run whose bump level is not patch, minor or major is rejected    *)
(* at argument parsing: it runs no command at all, so no "poetry version   *)
(* <level>", no write to CHANGELOG.md, no git add, commit or tag, no push  *)
(* and no release.                                                         *)
(***************************************************************************)
C1_InvalidLevelRejected ==
    level \notin {"patch", "minor", "major"} =>
        /\ pc \in {"module", "parse_args", "exited"}
        /\ log = <<>>
        /\ NoMutation

C1_Witness ==
    /\ level = "bogus"
    /\ has_aurelis /\ has_pyproject
    /\ pc = "exited"

(***************************************************************************)
(* C2.  Without --skip-checks, a working tree for which "git status        *)
(* --porcelain" prints something stops the run with an error before the    *)
(* version is bumped, the changelog written, or a commit, tag, push or     *)
(* release made; a mutation on a dirty tree needs --skip-checks.           *)
(***************************************************************************)
C2_DirtyTreeRejected ==
    /\ (~skip_checks /\ porcelain # <<>>) =>
          /\ pc \in {"module", "parse_args", "check_git_clean", "exited", "aborted"}
          /\ NoMutation
          /\ Succeeded("git status --porcelain") => pc = "exited"
    /\ (porcelain # <<>> /\ ~NoMutation) => skip_checks

C2_Witness ==
    /\ ~skip_checks
    /\ porcelain # <<>>
    /\ Succeeded("git status --porcelain")
    /\ pc = "exited"

(***************************************************************************)
(* C3.  An answer other than "y" or "Y" to the push prompt runs neither    *)
(* "git push" nor "git push --tags"; such an answer to the release prompt  *)
(* does not run "gh release create"; a run that declines both runs no      *)
(* command that changes the remote.                                        *)
(***************************************************************************)
Declined(prompt, confirm) ==
    Succeeded(prompt) /\ confirm \notin {<<"y">>, <<"Y">>}

C3_DeclineNoRemoteEffect ==
    /\ Declined("input push", push_confirm) =>
          ~Ran("git push") /\ ~Ran("git push --tags")
    /\ Declined("input release", release_confirm) => ~Ran("gh release create")
    /\ (Declined("input push", push_confirm)
        /\ Declined("input release", release_confirm)) =>
          \A i \in 1..Len(log) : log[i].cmd \notin RemoteCmds

C3_Witness ==
    /\ pc = "done"
    /\ Declined("input push", push_confirm)
    /\ push_confirm = <<"y", "e", "s">>
    /\ Declined("input release", release_confirm)
    /\ release_confirm = <<>>

(***************************************************************************)
(* C4.  update_changelog on an existing CHANGELOG.md without the           *)
(* recognized header ("# Changelog" and, behind it, a blank line) leaves   *)
(* the file as it was and returns False.                                   *)
(***************************************************************************)
C4_NoHeaderFileUntouched ==
    \A k \in 1..Len(updates) :
        (updates[k].before.exists
         /\ ~HasRecognizedHeader(read_text(updates[k].before.bytes))) =>
            /\ updates[k].after = updates[k].before
            /\ updates[k].ret = FALSE

C4_Witness ==
    /\ Len(updates) = 1
    /\ updates[1].before = File(<<HDR, LF, Txt("x")>>)
    /\ updates[1].ret = FALSE
    /\ changelog = updates[1].before

(***************************************************************************)
(* C5.  As claimed: a non-zero exit status of any subprocess the script    *)
(* runs (git status, poetry version, git add, git commit, git tag, git     *)
(* push, which gh, gh release create) ends the run at that step: nothing   *)
(* runs after it and the completion message is never printed.              *)
(***************************************************************************)
C5_EveryFailureFatal ==
    \A i \in 1..Len(log) :
        (log[i].cmd \in Subprocesses /\ log[i].rc # 0) =>
            /\ i = Len(log)
            /\ pc = "aborted"

(***************************************************************************)
(* C5, amended.  A non-zero exit status of every subprocess but "which gh" *)
(* ends the run at that step.  A non-zero exit status of "which gh" is not *)
(* fatal: the release prompt and "gh release create" are skipped, and the  *)
(* run goes on to print the completion message.                            *)
(***************************************************************************)
C5_FailureFatalExceptWhichGh ==
    \A i \in 1..Len(log) :
        (log[i].cmd \in Subprocesses /\ log[i].rc # 0) =>
            /\ i = Len(log)
            /\ IF log[i].cmd = "which gh"
               THEN pc \in {"completed", "done"}
               ELSE pc = "aborted"

C5_Witness ==
    /\ pc = "aborted"
    /\ Len(log) > 0
    /\ log[Len(log)] = Run("git push --tags", <<>>, 1)
    /\ Succeeded("git push")

(***************************************************************************)
(* C6.  The heading of a section update_changelog inserts carries the      *)
(* version bump_version returned, which is the version poetry reports      *)
(* after the bump and not the one before it, and the day of the call; the  *)
(* commit message, the tag and the release of the run carry the same       *)
(* version.                                                                *)
(***************************************************************************)
C6_SectionVersionAndDate ==
    /\ \A k \in 1..Len(updates) :
          updates[k].ret =>
              /\ HeadingsOf(updates[k].after)
                    = <<Heading(<<Ver(pyproject_version)>>, updates[k].today)>>
                      \o HeadingsOf(updates[k].before)
              /\ updates[k].version = <<Ver(pyproject_version)>>
              /\ updates[k].version # current_version
    /\ \A i \in 1..Len(log) :
          log[i].cmd \in {"git commit", "git tag", "gh release create"} =>
              /\ log[i].arg = <<Ver(pyproject_version)>>
              /\ \A k \in 1..Len(updates) : log[i].arg = updates[k].version

C6_Witness ==
    /\ pc = "done"
    /\ Len(updates) = 1
    /\ updates[1].ret
    /\ updates[1].today = 1
    /\ Succeeded("gh release create")

(***************************************************************************)
(* C8.  In a run that reaches the commit, the version committed and        *)
(* tagged is the one bump_version returned; it is strictly greater than    *)
(* the version read before the bump, with the component the level selects  *)
(* incremented; the level was checked and the bump had succeeded before    *)
(* the commit or the tag was made.                                         *)
(***************************************************************************)
BumpedBy(old, new, lvl) ==
    /\ Greater(new, old)
    /\ lvl = "patch" => new = <<old[1], old[2], old[3] + 1>>
    /\ lvl = "minor" => new[1] = old[1] /\ new[2] = old[2] + 1
    /\ lvl = "major" => new[1] = old[1] + 1

C8_VersionIncreases ==
    \A i \in 1..Len(log) :
        log[i].cmd \in {"git commit", "git tag"} =>
            /\ level \in {"patch", "minor", "major"}
            /\ \E j \in 1..(i - 1) : log[j] = Run(poetry_cmd(level), <<>>, 0)
            /\ log[i].arg = new_version
            /\ BumpedBy(Triple(current_version), Triple(log[i].arg), level)

C8_Witness ==
    /\ Succeeded("git tag")
    /\ level = "minor"
    /\ Triple(current_version) = <<0, 1, 1>>
    /\ Triple(new_version) = <<0, 2, 0>>

(***************************************************************************)
(* C7.  Started where "aurelis" or "pyproject.toml" is missing, the script *)
(* exits before it parses its arguments, runs a command or writes a file,  *)
(* whatever the level and --skip-checks.                                   *)
(***************************************************************************)
C7_WrongDirectoryRejected ==
    (~has_aurelis \/ ~has_pyproject) =>
        /\ pc \in {"module", "exited"}
        /\ log = <<>>
        /\ NoMutation

C7_Witness ==
    /\ has_aurelis
    /\ ~has_pyproject
    /\ level = "patch"
    /\ skip_checks
    /\ pc = "exited"

(***************************************************************************)
(* C9.  The steps run in one order: the clean check (unless skipped)       *)
(* before the bump, the bump before the changelog edit, the edit before    *)
(* the pause, commit and tag after the pause, the tag after a successful   *)
(* commit, the push prompt after the tag, the release step after the push  *)
(* step is over; no step runs twice.                                       *)
(***************************************************************************)
\* Every run of b comes after a successful run of a.
Before(a, b) == \A j \in Idx(b) : \E i \in Idx(a) : i < j /\ log[i].rc = 0

OnceCmds ==
    {"git status --porcelain", "input pause", "git add", "git commit", "git tag",
     "input push", "git push", "git push --tags", "which gh", "input release",
     "gh release create"}

C9_FixedOrder ==
    /\ \A c \in OnceCmds \cup BumpCmds : Cardinality(Idx(c)) <= 1
    /\ Cardinality(Idx("poetry version --short")) <= 2
    /\ Len(updates) <= 1
    /\ ~skip_checks => Before("git status --porcelain", poetry_cmd(level))
    /\ updates # <<>> => Succeeded(poetry_cmd(level))
    /\ Before(poetry_cmd(level), "write CHANGELOG.md")
    /\ Ran("input pause") => updates # <<>>
    /\ \A i \in Idx("write CHANGELOG.md") : \A j \in Idx("input pause") : i < j
    /\ Before("input pause", "git add")
    /\ Before("git add", "git commit")
    /\ Before("git commit", "git tag")
    /\ Before("git tag", "input push")
    /\ Before("input push", "git push")
    /\ Before("git push", "git push --tags")
    /\ Before("input push", "which gh")
    /\ (Ran("which gh") /\ Ran("git push")) => Before("git push --tags", "which gh")
    /\ Before("which gh", "input release")
    /\ Before("input release", "gh release create")
    /\ pc = "done" => Ran("which gh")

C9_Witness ==
    /\ pc = "done"
    /\ ~skip_checks
    /\ Succeeded("git push --tags")
    /\ Succeeded("gh release create")
    /\ updates[1].ret

(***************************************************************************)
(* C10.  As claimed: a successful update_changelog call keeps everything   *)
(* the file held before the call, unchanged and in order, and puts the new *)
(* section right behind the header; a missing file first gets the header.  *)
(* So the sections of successive releases stand newest first.              *)
(***************************************************************************)
\* The file an update starts from, a missing one being created first.
Started(u) ==
    IF u.before.exists THEN u.before.bytes ELSE write_text(InitialHeader, u.sep)

\* The first p tokens are whole lines or a whole part of one: the cut does
\* not fall between the CR and the LF of one line end.
CleanCut(bytes, p) == ~(p >= 1 /\ p < Len(bytes) /\ bytes[p] = CR /\ bytes[p + 1] = LF)

HeaderWithin(bytes, p) ==
    CleanCut(bytes, p) /\ HasRecognizedHeader(read_text(SubSeq(bytes, 1, p)))

\* The header of the file ends with token p: the first p tokens hold
\* "# Changelog" and a blank line behind it, and no shorter prefix does.
HeaderEndsAt(bytes, p) ==
    /\ HeaderWithin(bytes, p)
    /\ \A q \in 0..(p - 1) : ~HeaderWithin(bytes, q)

InsertedBehindHeader(old, section, new) ==
    \E p \in 1..Len(old) :
        /\ HeaderEndsAt(old, p)
        /\ new = SubSeq(old, 1, p) \o section \o SubSeq(old, p + 1, Len(old))

C10_AppendOnlyNewestFirst ==
    \A k \in 1..Len(updates) :
        updates[k].ret =>
            /\ InsertedBehindHeader(
                   Started(updates[k]),
                   write_text(new_section(updates[k].version, updates[k].today),
                              updates[k].sep),
                   updates[k].after.bytes)
            /\ HeadingsOf(updates[k].after)
                  = <<Heading(updates[k].version, updates[k].today)>>
                    \o HeadingsOf(updates[k].before)

(***************************************************************************)
(* What holds of the text instead, line ends set aside: read the way the   *)
(* script reads it, the file after a successful call is the file before    *)
(* it with the section put right behind the header.                        *)
(***************************************************************************)
C10_AppendOnlyAsRead ==
    \A k \in 1..Len(updates) :
        updates[k].ret =>
            /\ InsertedBehindHeader(
                   read_text(Started(updates[k])),
                   new_section(updates[k].version, updates[k].today),
                   read_text(updates[k].after.bytes))
            /\ HeadingsOf(updates[k].after)
                  = <<Heading(updates[k].version, updates[k].today)>>
                    \o HeadingsOf(updates[k].before)

C10_AsReadWitness ==
    /\ Len(updates) = 2
    /\ updates[1].ret
    /\ updates[2].ret
    /\ ~updates[1].before.exists

====
